---- MODULE Spec2Model ----
(***************************************************************************)
(* Model of ServicesBackup (src/main.py, class Program): loading a saved   *)
(* snapshot, restoring start types, the tolerant diff against the live     *)
(* service list (print_backup_difference), the strict diff                 *)
(* (configurations_difference) and the suffix-stripping regex.             *)
(*                                                                         *)
(* Python strings are sequences of code points, so that ordering           *)
(* (sorted(key=DisplayName)), character classes and the "old -> new"       *)
(* overlay are computed as Python computes them.  Python dicts are records *)
(* (functions over their keys); dicts that preserve insertion order and    *)
(* are iterated are sequences of [k, v] items.  Objects live in a heap and *)
(* lists and dicts hold references, so aliasing and in-place writes are    *)
(* visible.                                                                *)
(***************************************************************************)
EXTENDS Integers, Sequences, FiniteSets, TLC

VARIABLES
    pc,                    \* position of the running handler
    op,                    \* which handler runs: "restore" | "diff" | "normalize" | "strict"
    ignore_suffix,         \* argument of print_backup_difference
    file,                  \* parsed JSON content of the snapshot file
    error,                 \* the exception raised, or NoError
    heap,                  \* objects (dicts) by reference
    services_backup,       \* result of load_services_from_file (list of references)
    services_current,      \* result of list_services (list of references)
    services_backup_dict,  \* Name -> reference, insertion ordered
    services_current_dict, \* Name -> reference, insertion ordered
    services_diff,         \* changed entries (references; FieldDiff values in the strict diff)
    deleted_services,      \* references
    new_services,          \* references
    idx,                   \* position of a for loop over a list
    applied,               \* Set-Service calls made so far, in order
    failed,                \* names printed as "Failed to restore service"
    service_name,          \* argument of re.sub
    new_name,              \* result of re.sub
    services_old,          \* arguments of configurations_difference
    services_new,
    services_old_dict

vars == <<pc, op, ignore_suffix, file, error, heap, services_backup, services_current,
          services_backup_dict, services_current_dict, services_diff, deleted_services,
          new_services, idx, applied, failed, service_name, new_name,
          services_old, services_new, services_old_dict>>

----------------------------------------------------------------------------
(* Bounds of the model *)

MaxFileLen == 3      \* records in the snapshot file
MaxLiveLen == 2      \* services the OS enumerates
MaxStrictLen == 2    \* records in each argument of configurations_difference
MaxPrefix == 2       \* characters before the repeated run of a generated name
MaxRepeat == 12      \* length of the repeated run of a generated name
MaxPost == 1         \* characters after the repeated run of a generated name

----------------------------------------------------------------------------
(* Characters *)

Underscore == 95
LowerA == 97
LowerZ == 122
Digit0 == 48
Digit9 == 57
LineFeed == 10
Space == 32
Hyphen == 45
Greater == 62

\* _only_save_rows, in order
only_save_rows_without_StartType == <<"Name", "DisplayName">>
only_save_rows == <<"Name", "DisplayName", "StartType">>

NoError == [kind |-> "none"]

\* str < str in Python: lexicographic by code point
RECURSIVE StrLess(_, _)
StrLess(a, b) ==
    IF b = <<>> THEN FALSE
    ELSE IF a = <<>> THEN TRUE
    ELSE IF a[1] # b[1] THEN a[1] < b[1]
    ELSE StrLess(Tail(a), Tail(b))

StrLeq(a, b) == a = b \/ StrLess(a, b)

----------------------------------------------------------------------------
(* re.sub(r"_[a-z0-9]{,10}$", "", service_name) *)

\* the upper bound of the repetition {,10}
RepMaxOff == 10 + 1
RepMax == 10

\* [a-z0-9]
InClass(c) == (LowerA <= c /\ c <= LowerZ) \/ (Digit0 <= c /\ c <= Digit9)

\* $ without re.MULTILINE: at the end of the string, or just before a line
\* feed that is the last character; p is the number of characters consumed
AtDollar(s, p) == p = Len(s) \/ (p = Len(s) - 1 /\ s[Len(s)] = LineFeed)

\* the pattern tried at position i: the end of the match, or 0 when it fails.
\* The repetition is greedy: the longest run that lets $ match wins.
MatchEnd(s, i) ==
    IF s[i] # Underscore THEN 0
    ELSE LET ks == {k \in 0..RepMax :
                      /\ i + k <= Len(s)
                      /\ \A j \in (i + 1)..(i + k) : InClass(s[j])
                      /\ AtDollar(s, i + k)}
         IN IF ks = {} THEN 0
            ELSE i + (CHOOSE k \in ks : \A k2 \in ks : k2 <= k)

\* re.sub: scan left to right, drop every non-overlapping match
RECURSIVE SubFrom(_, _)
SubFrom(s, i) ==
    IF i > Len(s) THEN <<>>
    ELSE LET e == MatchEnd(s, i)
         IN IF e = 0 THEN <<s[i]>> \o SubFrom(s, i + 1)
            ELSE SubFrom(s, e + 1)

Normalize(s) == SubFrom(s, 1)

----------------------------------------------------------------------------
(* dict: insertion-ordered items *)

DictHas(d, k) == \E j \in 1..Len(d) : d[j].k = k

DictGet(d, k) == d[CHOOSE j \in 1..Len(d) : d[j].k = k].v

\* d[k] = v keeps the position of a key already present
DictPutFirstWins(d, k, v) ==
    IF DictHas(d, k) THEN d ELSE Append(d, [k |-> k, v |-> v])
DictPut(d, k, v) ==
    IF DictHas(d, k)
    THEN [j \in 1..Len(d) |-> IF d[j].k = k THEN [k |-> k, v |-> v] ELSE d[j]]
    ELSE Append(d, [k |-> k, v |-> v])

DictValues(d) == [j \in 1..Len(d) |-> d[j].v]

\* {service["Name"]: service for service in services}
RECURSIVE BuildDict(_, _, _)
BuildDict(h, list, d) ==
    IF list = <<>> THEN d
    ELSE BuildDict(h, Tail(list), DictPut(d, h[Head(list)].Name, Head(list)))

----------------------------------------------------------------------------
(* list(sorted(services, key=lambda x: x["DisplayName"])): stable *)

\* insert r after every element whose key is <= its own
RECURSIVE InsertSorted(_, _, _)
InsertSorted(h, sorted, r) ==
    IF sorted = <<>> THEN <<r>>
    ELSE IF StrLess(h[r].DisplayName, h[Head(sorted)].DisplayName)
         THEN <<r>> \o sorted
         ELSE <<Head(sorted)>> \o InsertSorted(h, Tail(sorted), r)

RECURSIVE SortFrom(_, _, _)
SortFrom(h, list, acc) ==
    IF list = <<>> THEN acc
    ELSE SortFrom(h, Tail(list), InsertSorted(h, acc, Head(list)))

SortedUnsorted(h, list) == list
Sorted(h, list) == SortFrom(h, list, <<>>)

----------------------------------------------------------------------------
(* Inputs: snapshot files and what the OS enumerates *)

Automatic == <<65, 117, 116, 111, 109, 97, 116, 105, 99>>   \* "Automatic"
Manual == <<77, 97, 110, 117, 97, 108>>                     \* "Manual"
Running == <<82, 117, 110, 110, 105, 110, 103>>             \* "Running"

Service(name, display, start) ==
    [Name |-> name, DisplayName |-> display, StartType |-> start]

\* names "S_a", "S_b", "T"; display names "a", "b", "c"
GoodRecords ==
    { Service(<<83, 95, 97>>, <<97>>, Automatic),
      Service(<<84>>,         <<98>>, Automatic),
      Service(<<83, 95, 98>>, <<99>>, Automatic),
      Service(<<83, 95, 97>>, <<99>>, Manual),
      Service(<<84>>,         <<98>>, Manual),
      Service(<<83, 95, 97>>, <<99>>, Automatic) }

\* a mapping without StartType, a mapping with StartType only, a JSON string
BadItems ==
    { [Name |-> <<84>>, DisplayName |-> <<98>>],
      [StartType |-> Manual],
      [json_scalar |-> <<84>>] }

SeqsUpTo(S, n) == UNION {[1..k -> S] : k \in 0..n}

Files ==
    {[is_list |-> TRUE, items |-> items] : items \in SeqsUpTo(GoodRecords \cup BadItems, MaxFileLen)}
    \cup {[is_list |-> FALSE, items |-> <<>>]}

\* what Get-Service | Select-Object Name,DisplayName,Status,StartType yields:
\* the service manager keeps names unique
LiveServices ==
    {[Name |-> r.Name, DisplayName |-> r.DisplayName, Status |-> Running,
      StartType |-> r.StartType] :
        r \in { Service(<<83, 95, 97>>, <<97>>, Automatic),
                Service(<<84>>,         <<98>>, Automatic),
                Service(<<83, 95, 98>>, <<99>>, Automatic) }}

OSOutputs ==
    {out \in SeqsUpTo(LiveServices, MaxLiveLen) :
        \A j1, j2 \in 1..Len(out) : j1 < j2 => out[j1].Name # out[j2].Name}

----------------------------------------------------------------------------
(* load_services_from_file *)

\* isinstance(service, dict)
IsDict(item) == "json_scalar" \notin DOMAIN item

MissingKeys(item) == {j \in 1..Len(only_save_rows) : only_save_rows[j] \notin DOMAIN item}

HasDuplicateNames(items) ==
    \E j1, j2 \in 1..Len(items) : j1 < j2 /\ items[j1].Name = items[j2].Name

\* the exception load_services_from_file raises on f, or NoError
LoadErrorBase(f) ==
    IF ~f.is_list \/ \E j \in 1..Len(f.items) : ~IsDict(f.items[j])
    THEN [kind |-> "ValueError", msg |-> "File is not a list of services"]
    ELSE LET bad == {j \in 1..Len(f.items) : MissingKeys(f.items[j]) # {}}
         IN IF bad = {} THEN NoError
            ELSE LET j == CHOOSE j \in bad : \A j2 \in bad : j <= j2
                     m == MissingKeys(f.items[j])
                     k == CHOOSE k \in m : \A k2 \in m : k <= k2
                 IN [kind |-> "ValueError", msg |-> "Service is missing key",
                     key |-> only_save_rows[k], record |-> f.items[j]]

LoadErrorRejectDuplicates(f) ==
    IF LoadErrorBase(f) # NoError THEN LoadErrorBase(f)
    ELSE IF HasDuplicateNames(f.items)
         THEN [kind |-> "ValueError", msg |-> "Duplicate service name"]
         ELSE NoError

LoadError(f) == LoadErrorBase(f)

Refs(from, n) == [j \in 1..n |-> from + j]

Load ==
    /\ pc = "start"
    /\ op \in {"restore", "diff"}
    /\ IF LoadError(file) # NoError
       THEN /\ error' = LoadError(file)
            /\ pc' = "raised"
            /\ UNCHANGED <<heap, services_backup, idx>>
       ELSE /\ heap' = file.items
            /\ services_backup' = Sorted(heap', Refs(0, Len(file.items)))
            /\ idx' = 1
            /\ pc' = IF op = "restore" THEN "restoring" ELSE "loaded"
            /\ UNCHANGED error
    /\ UNCHANGED <<op, ignore_suffix, file, services_current, services_backup_dict,
                   services_current_dict, services_diff, deleted_services, new_services,
                   applied, failed, service_name, new_name, services_old, services_new,
                   services_old_dict>>

----------------------------------------------------------------------------
(* restore_services *)

\* where the for loop goes after one Set-Service call
AfterApplyAbort(i, n, returncode) == IF returncode # 0 THEN n + 1 ELSE i + 1
AfterApply(i, n, returncode) == i + 1

\* one iteration of the loop: run Set-Service, print a failure
Apply ==
    /\ pc = "restoring"
    /\ idx <= Len(services_backup)
    /\ \E returncode \in {0, 1} :
         LET service == heap[services_backup[idx]]
         IN /\ applied' = Append(applied, [Name |-> service.Name, StartupType |-> service.StartType])
            /\ failed' = IF returncode # 0 THEN Append(failed, service.Name) ELSE failed
            /\ idx' = AfterApply(idx, Len(services_backup), returncode)
    /\ UNCHANGED <<pc, op, ignore_suffix, file, error, heap, services_backup, services_current,
                   services_backup_dict, services_current_dict, services_diff,
                   deleted_services, new_services, service_name, new_name,
                   services_old, services_new, services_old_dict>>

\* print("Services restored")
RestoreReport ==
    /\ pc = "restoring"
    /\ idx > Len(services_backup)
    /\ pc' = "restored"
    /\ UNCHANGED <<op, ignore_suffix, file, error, heap, services_backup, services_current,
                   services_backup_dict, services_current_dict, services_diff,
                   deleted_services, new_services, idx, applied, failed, service_name,
                   new_name, services_old, services_new, services_old_dict>>

----------------------------------------------------------------------------
(* list_services *)

\* {k: v for k, v in service.items() if k in self._only_save_rows}
Cut(service) ==
    [k \in DOMAIN service \cap {only_save_rows[j] : j \in 1..Len(only_save_rows)} |-> service[k]]

\* services_backup_dict is built, then list_services() returns the OS's
\* services, cut to the saved keys and sorted
ListServices ==
    /\ pc = "loaded"
    /\ services_backup_dict' = BuildDict(heap, services_backup, <<>>)
    /\ \E out \in OSOutputs :
         /\ heap' = heap \o [j \in 1..Len(out) |-> Cut(out[j])]
         /\ services_current' = Sorted(heap', Refs(Len(heap), Len(out)))
    /\ pc' = "listed"
    /\ UNCHANGED <<op, ignore_suffix, file, error, services_backup, services_current_dict,
                   services_diff, deleted_services, new_services, idx, applied, failed,
                   service_name, new_name, services_old, services_new, services_old_dict>>

\* the OS's output cannot be parsed: "Error parsing services", sys.exit(1)
ListServicesExit ==
    /\ pc = "loaded"
    /\ services_backup_dict' = BuildDict(heap, services_backup, <<>>)
    /\ pc' = "exited"
    /\ UNCHANGED <<op, ignore_suffix, file, error, heap, services_backup, services_current,
                   services_current_dict, services_diff, deleted_services, new_services,
                   idx, applied, failed, service_name, new_name, services_old,
                   services_new, services_old_dict>>

----------------------------------------------------------------------------
(* print_backup_difference *)

\* services_dict[service_name].copy(): a new object with the same items
CopyObjectAlias(h, ref) == [heap |-> h, ref |-> ref]
CopyObject(h, ref) == [heap |-> Append(h, h[ref]), ref |-> Len(h) + 1]

\* obj[key] = val
SetItem(obj, key, val) ==
    [k \in DOMAIN obj \cup {key} |-> IF k = key THEN val ELSE obj[k]]

\* the body of "if ignore_suffix" for one services_dict, from its j-th key on:
\* the heap and the new_dict that replaces the dict's content
RECURSIVE StripFrom(_, _, _, _)
StripFrom(h, services_dict, j, new_dict) ==
    IF j > Len(services_dict) THEN [heap |-> h, dict |-> new_dict]
    ELSE LET name == Normalize(services_dict[j].k)
             c == CopyObject(h, services_dict[j].v)
             h2 == [c.heap EXCEPT ![c.ref] = SetItem(@, "Name", name)]
         IN StripFrom(h2, services_dict, j + 1, DictPut(new_dict, name, c.ref))

\* f"{serv_bac[key]} -> {serv_cur[key]}"
Arrow(old, new) == old \o <<Space, Hyphen, Greater, Space>> \o new

\* serv_cur != serv_bac
RecordsDiffer(serv_cur, serv_bac) == serv_cur # serv_bac

\* if serv_cur["StartType"] == serv_bac["StartType"]: continue
SkipNever(serv_cur, serv_bac) == FALSE
SkipSameStartType(serv_cur, serv_bac) == serv_cur.StartType = serv_bac.StartType

\* copy.deepcopy(serv_cur) updated with the "old -> new" strings
Overlay(serv_cur, serv_bac) ==
    [key \in DOMAIN serv_cur |->
        IF serv_cur[key] # serv_bac[key] THEN Arrow(serv_bac[key], serv_cur[key])
        ELSE serv_cur[key]]

\* the loop over services_current_dict.values(), from the j-th value on
RECURSIVE DiffFrom(_, _, _, _, _)
DiffFrom(h, backup_dict, current_dict, j, diff) ==
    IF j > Len(current_dict) THEN [heap |-> h, diff |-> diff]
    ELSE LET serv_cur == h[current_dict[j].v]
             serv_name == serv_cur.Name
         IN IF ~DictHas(backup_dict, serv_name)
            THEN DiffFrom(h, backup_dict, current_dict, j + 1, diff)
            ELSE LET serv_bac == h[DictGet(backup_dict, serv_name)]
                 IN IF RecordsDiffer(serv_cur, serv_bac) /\ ~SkipSameStartType(serv_cur, serv_bac)
                    THEN DiffFrom(Append(h, Overlay(serv_cur, serv_bac)), backup_dict,
                                  current_dict, j + 1, Append(diff, Len(h) + 1))
                    ELSE DiffFrom(h, backup_dict, current_dict, j + 1, diff)

\* service["Name"] not in services_current_dict
IsDeletedAlways(h, current_dict, ref) == TRUE
IsDeleted(h, current_dict, ref) == ~DictHas(current_dict, h[ref].Name)

\* service["Name"] not in services_backup_dict
IsNew(h, backup_dict, ref) == ~DictHas(backup_dict, h[ref].Name)

Filter(seq, Test(_)) == SelectSeq(seq, Test)

PrintDifference ==
    /\ pc = "listed"
    /\ LET cur0 == BuildDict(heap, services_current, <<>>)
           sb == IF ignore_suffix THEN StripFrom(heap, services_backup_dict, 1, <<>>)
                 ELSE [heap |-> heap, dict |-> services_backup_dict]
           sc == IF ignore_suffix THEN StripFrom(sb.heap, cur0, 1, <<>>)
                 ELSE [heap |-> heap, dict |-> cur0]
           res == DiffFrom(sc.heap, sb.dict, sc.dict, 1, <<>>)
           Deleted(ref) == IsDeleted(res.heap, sc.dict, ref)
           New(ref) == IsNew(res.heap, sb.dict, ref)
       IN /\ heap' = res.heap
          /\ services_backup_dict' = sb.dict
          /\ services_current_dict' = sc.dict
          /\ services_diff' = res.diff
          /\ deleted_services' = Filter(DictValues(sb.dict), Deleted)
          /\ new_services' = Filter(DictValues(sc.dict), New)
    /\ pc' = "diffed"
    /\ UNCHANGED <<op, ignore_suffix, file, error, services_backup, services_current, idx,
                   applied, failed, service_name, new_name, services_old, services_new,
                   services_old_dict>>

----------------------------------------------------------------------------
(* The program: restore <file> and diff <file> [--ignore-suffix] *)

Init ==
    /\ pc = "start"
    /\ op \in {"restore", "diff"}
    /\ ignore_suffix \in (IF op = "diff" THEN BOOLEAN ELSE {FALSE})
    /\ file \in Files
    /\ error = NoError
    /\ heap = <<>>
    /\ services_backup = <<>>
    /\ services_current = <<>>
    /\ services_backup_dict = <<>>
    /\ services_current_dict = <<>>
    /\ services_diff = <<>>
    /\ deleted_services = <<>>
    /\ new_services = <<>>
    /\ idx = 0
    /\ applied = <<>>
    /\ failed = <<>>
    /\ service_name = <<>>
    /\ new_name = <<>>
    /\ services_old = <<>>
    /\ services_new = <<>>
    /\ services_old_dict = <<>>

Next ==
    \/ Load
    \/ Apply
    \/ RestoreReport
    \/ ListServices
    \/ ListServicesExit
    \/ PrintDifference

Spec == Init /\ [][Next]_vars

\* restore <file> alone; the handler is one synchronous loop, so a step that
\* can be taken is taken
RestoreInit == Init /\ op = "restore"

RestoreNext ==
    \/ Load
    \/ Apply
    \/ RestoreReport

RestoreSpec == RestoreInit /\ [][RestoreNext]_vars /\ WF_vars(RestoreNext)

----------------------------------------------------------------------------
(* Vocabulary of the properties *)

\* the records a list of references denotes
Values(list) == [j \in 1..Len(list) |-> heap[list[j]]]

DisplaySorted(records) ==
    \A j \in 1..(Len(records) - 1) :
        StrLeq(records[j].DisplayName, records[j + 1].DisplayName)

\* the snapshot file passes validation
ValidFile(f) ==
    /\ f.is_list
    /\ \A j \in 1..Len(f.items) :
         /\ IsDict(f.items[j])
         /\ {"Name", "DisplayName", "StartType"} \subseteq DOMAIN f.items[j]

\* the Set-Service call restore makes for a record
Call(service) == [Name |-> service.Name, StartupType |-> service.StartType]

\* the name a record is looked up by in the diff
Key(name) == IF ignore_suffix THEN Normalize(name) ELSE name

DistinctNames(records) ==
    \A j1, j2 \in 1..Len(records) : j1 < j2 => records[j1].Name # records[j2].Name

DistinctKeys(records) ==
    \A j1, j2 \in 1..Len(records) :
        j1 < j2 => Key(records[j1].Name) # Key(records[j2].Name)

DictKeys(d) == {d[j].k : j \in 1..Len(d)}

\* how often a section lists a name
Count(section, name) == Cardinality({j \in 1..Len(section) : heap[section[j]].Name = name})

----------------------------------------------------------------------------
(* C1 *)

\* C1: restore applies every record of the loaded snapshot exactly once, in
\* snapshot (display_name-sorted) order: each loop step applies the record at
\* the loop position, records a failure only under that record's name and
\* moves to the next record whatever the return code; at the report the calls
\* made are exactly the snapshot's records, and the report is always reached.
C1_RestoreAttemptsEveryRecord ==
    /\ [][(pc = "restoring" /\ pc' = "restoring") =>
            /\ idx' = idx + 1
            /\ applied' = Append(applied, Call(heap[services_backup[idx]]))
            /\ failed' \in {failed, Append(failed, heap[services_backup[idx]].Name)}]_vars
    /\ [](pc = "restored" =>
            /\ DisplaySorted(Values(services_backup))
            /\ applied = [j \in 1..Len(services_backup) |-> Call(heap[services_backup[j]])])
    /\ ((pc = "restoring") ~> (pc = "restored"))

\* three records, the second one's Set-Service fails, all three were applied
C1_Witness ==
    /\ pc = "restored"
    /\ Len(services_backup) = 3
    /\ Len(applied) = 3
    /\ failed = <<heap[services_backup[2]].Name>>

----------------------------------------------------------------------------
(* C2 *)

\* C2: when the snapshot file fails validation (not a list of mappings, or a
\* record at any position lacks Name, DisplayName or StartType), load raises
\* and returns no list, restore makes no Set-Service call and the diff
\* produces no changed, deleted or new entry.
C2_FailedLoadDoesNothing ==
    (pc # "start" /\ ~ValidFile(file)) =>
        /\ pc = "raised"
        /\ error # NoError
        /\ services_backup = <<>>
        /\ applied = <<>>
        /\ services_diff = <<>>
        /\ deleted_services = <<>>
        /\ new_services = <<>>

\* a complete first record followed by a record without StartType
C2_Witness ==
    /\ pc = "raised"
    /\ Len(file.items) >= 2
    /\ file.items[1] \in GoodRecords
    /\ IsDict(file.items[2])
    /\ MissingKeys(file.items[2]) = {3}
    /\ error.key = "StartType"
    /\ error.record = file.items[2]

----------------------------------------------------------------------------
(* C3 *)

\* two mappings of the file carry the same Name
FileHasDuplicateNames ==
    \E j1, j2 \in 1..Len(file.items) :
        /\ j1 < j2
        /\ "Name" \in DOMAIN file.items[j1]
        /\ "Name" \in DOMAIN file.items[j2]
        /\ file.items[j1].Name = file.items[j2].Name

\* C3 as stated: load fails on every file in which two records carry the
\* same Name.
C3_DuplicateNamesRejected ==
    (pc # "start" /\ FileHasDuplicateNames) => pc = "raised"

\* C3 amended: load does not check names for uniqueness.  It fails exactly
\* when the file fails validation, and otherwise returns every record of the
\* file, duplicates of a Name included.
C3_LoadKeepsEveryRecord ==
    pc # "start" =>
        /\ (pc = "raised") <=> ~ValidFile(file)
        /\ pc # "raised" =>
             /\ Len(services_backup) = Len(file.items)
             /\ {services_backup[j] : j \in 1..Len(services_backup)} = 1..Len(file.items)
             /\ \A j \in 1..Len(file.items) : heap[j] = file.items[j]

\* a loaded snapshot with two records of the same Name
C3_Witness ==
    /\ pc \in {"restoring", "loaded"}
    /\ FileHasDuplicateNames
    /\ ~DistinctNames(Values(services_backup))

----------------------------------------------------------------------------
(* C4 *)

\* C4 as stated: the loaded list and the changed, deleted and new sections
\* are each non-decreasing in the DisplayName of their entries.
C4_AllOutputsSorted ==
    /\ DisplaySorted(Values(services_backup))
    /\ pc = "diffed" =>
         /\ DisplaySorted(Values(services_diff))
         /\ DisplaySorted(Values(deleted_services))
         /\ DisplaySorted(Values(new_services))

\* the live record a changed entry was derived from
LiveOf(ref) == heap[DictGet(services_current_dict, heap[ref].Name)]

\* C4 amended: the loaded list is non-decreasing in DisplayName.  When the
\* lookup keys (names, or normalized names with ignore_suffix) of the backup
\* list are pairwise distinct the deleted section is non-decreasing in
\* DisplayName; when those of the live list are pairwise distinct the new
\* section is, and the changed section is non-decreasing in the DisplayName
\* of the live record each entry derives from.
C4_SortedWhenKeysDistinct ==
    /\ DisplaySorted(Values(services_backup))
    /\ pc = "diffed" =>
         /\ DistinctKeys(Values(services_backup)) =>
              DisplaySorted(Values(deleted_services))
         /\ DistinctKeys(Values(services_current)) =>
              /\ DisplaySorted(Values(new_services))
              /\ DisplaySorted([j \in 1..Len(services_diff) |-> LiveOf(services_diff[j])])

\* distinct keys on both sides, two changed entries and a deleted one
C4_Witness ==
    /\ pc = "diffed"
    /\ DistinctKeys(Values(services_backup))
    /\ DistinctKeys(Values(services_current))
    /\ Len(services_diff) = 2
    /\ Len(deleted_services) >= 1
    /\ file.items # Values(services_backup)

----------------------------------------------------------------------------
(* C5 *)

\* the StartType the two lookup maps hold for a name differ
StartTypeDiffers(name) ==
    heap[DictGet(services_backup_dict, name)].StartType
        # heap[DictGet(services_current_dict, name)].StartType

\* C5: after the diff every name of the backup map or the live map is in
\* exactly the section its class calls for: deleted iff it is in the backup
\* map only, new iff it is in the live map only, changed iff it is in both
\* and the StartType values differ; a name in both maps with equal StartType
\* is in no section, and no section lists a name twice or a name of neither map.
C5_ExactlyOneClass ==
    pc = "diffed" =>
        LET bk == DictKeys(services_backup_dict)
            ck == DictKeys(services_current_dict)
        IN /\ \A name \in bk \cup ck :
                /\ Count(deleted_services, name) = IF name \in bk \ ck THEN 1 ELSE 0
                /\ Count(new_services, name) = IF name \in ck \ bk THEN 1 ELSE 0
                /\ Count(services_diff, name) =
                      IF name \in bk \cap ck /\ StartTypeDiffers(name) THEN 1 ELSE 0
           /\ \A ref \in {services_diff[j] : j \in 1..Len(services_diff)}
                    \cup {deleted_services[j] : j \in 1..Len(deleted_services)}
                    \cup {new_services[j] : j \in 1..Len(new_services)} :
                heap[ref].Name \in bk \cup ck

\* a name in both maps whose records differ in DisplayName only, beside a
\* changed, a deleted and a new entry
C5_Witness ==
    /\ pc = "diffed"
    /\ \E name \in DictKeys(services_backup_dict) \cap DictKeys(services_current_dict) :
         /\ ~StartTypeDiffers(name)
         /\ heap[DictGet(services_backup_dict, name)].DisplayName
               # heap[DictGet(services_current_dict, name)].DisplayName
    /\ services_diff # <<>>
    /\ deleted_services # <<>>

----------------------------------------------------------------------------
(* C6 *)

\* C6: the diff of a loaded snapshot against a live list equal to it, without
\* ignore_suffix, has empty changed, deleted and new sections.
C6_NoChangeNoOutput ==
    (pc = "diffed" /\ ~ignore_suffix /\ Values(services_current) = Values(services_backup)) =>
        /\ services_diff = <<>>
        /\ deleted_services = <<>>
        /\ new_services = <<>>

\* a snapshot of two records diffed against itself
C6_Witness ==
    /\ pc = "diffed"
    /\ ~ignore_suffix
    /\ Len(services_backup) = 2
    /\ Values(services_current) = Values(services_backup)

----------------------------------------------------------------------------
(* C9 *)

\* the objects of the loaded and the enumerated list
InputObjects ==
    {services_backup[j] : j \in 1..Len(services_backup)}
        \cup {services_current[j] : j \in 1..Len(services_current)}

\* C9: the diff step leaves both input lists and every record of them as
\* they were; the changed entries, and with ignore_suffix the records the
\* lookup maps hold, are objects of their own.
C9_InputsNotMutated ==
    [][pc = "listed" =>
         /\ services_backup' = services_backup
         /\ services_current' = services_current
         /\ Values(services_backup)' = Values(services_backup)
         /\ Values(services_current)' = Values(services_current)
         /\ \A j \in 1..Len(services_diff') : services_diff'[j] \notin InputObjects
         /\ ignore_suffix =>
              /\ \A j \in 1..Len(services_backup_dict') :
                   services_backup_dict'[j].v \notin InputObjects
              /\ \A j \in 1..Len(services_current_dict') :
                   services_current_dict'[j].v \notin InputObjects]_vars

\* a diff with ignore_suffix that stripped a suffix and overlaid a change
C9_Witness ==
    /\ pc = "diffed"
    /\ ignore_suffix
    /\ \E j \in 1..Len(services_backup) :
         Normalize(heap[services_backup[j]].Name) # heap[services_backup[j]].Name
    /\ \E j \in 1..Len(services_current) :
         Normalize(heap[services_current[j]].Name) # heap[services_current[j]].Name
    /\ services_diff # <<>>

----------------------------------------------------------------------------
(* C10 *)

\* d is the name -> record map of the records renamed to their normalized
\* names, the last record in list order winning a name
IsLastWinsMap(d, records) ==
    /\ DictKeys(d) = {Normalize(records[j].Name) : j \in 1..Len(records)}
    /\ \A j1, j2 \in 1..Len(d) : j1 # j2 => d[j1].k # d[j2].k
    /\ \A j \in 1..Len(d) :
         LET same == {i \in 1..Len(records) : Normalize(records[i].Name) = d[j].k}
             last == CHOOSE i \in same : \A i2 \in same : i2 <= i
         IN heap[d[j].v] = SetItem(records[last], "Name", d[j].k)

\* C10 as stated: with ignore_suffix both lookup maps are the last-write-wins
\* maps of the renamed lists, for every list.
C10_LastWriteWins ==
    (pc = "diffed" /\ ignore_suffix) =>
        /\ IsLastWinsMap(services_backup_dict, Values(services_backup))
        /\ IsLastWinsMap(services_current_dict, Values(services_current))

\* C10 amended: with ignore_suffix the lookup map of a list whose names are
\* pairwise distinct is the last-write-wins map of the renamed list.
C10_LastWriteWinsDistinctNames ==
    (pc = "diffed" /\ ignore_suffix) =>
        /\ DistinctNames(Values(services_backup)) =>
             IsLastWinsMap(services_backup_dict, Values(services_backup))
        /\ DistinctNames(Values(services_current)) =>
             IsLastWinsMap(services_current_dict, Values(services_current))

\* distinct names that collide once normalized, on both sides
C10_Witness ==
    /\ pc = "diffed"
    /\ ignore_suffix
    /\ DistinctNames(Values(services_backup))
    /\ DistinctNames(Values(services_current))
    /\ ~DistinctKeys(Values(services_backup))
    /\ ~DistinctKeys(Values(services_current))

----------------------------------------------------------------------------
(* The suffix-stripping substitution on its own *)

Repeat(c, n) == [j \in 1..n |-> c]

\* characters at and around the edges of [a-z0-9], "_", "A" and "\n"
Alphabet ==
    {Underscore, LowerA, LowerZ, Digit0, Digit9, LowerA - 1, LowerZ + 1,
     Digit0 - 1, Digit9 + 1, 65, LineFeed}

\* a prefix, a run of one character, an ending
Names ==
    {pre \o Repeat(c, n) \o post :
        pre \in SeqsUpTo({Underscore, LowerA, 65}, MaxPrefix),
        c \in Alphabet,
        n \in 0..MaxRepeat,
        post \in SeqsUpTo({Underscore, LowerA, 65, LineFeed}, MaxPost)}

NormInit ==
    /\ pc = "start"
    /\ op = "normalize"
    /\ service_name \in Names
    /\ ignore_suffix = TRUE
    /\ file = [is_list |-> FALSE, items |-> <<>>]
    /\ error = NoError
    /\ heap = <<>>
    /\ services_backup = <<>>
    /\ services_current = <<>>
    /\ services_backup_dict = <<>>
    /\ services_current_dict = <<>>
    /\ services_diff = <<>>
    /\ deleted_services = <<>>
    /\ new_services = <<>>
    /\ idx = 0
    /\ applied = <<>>
    /\ failed = <<>>
    /\ new_name = <<>>
    /\ services_old = <<>>
    /\ services_new = <<>>
    /\ services_old_dict = <<>>

\* new_name = re.sub(r"_[a-z0-9]{,10}$", "", service_name)
Strip ==
    /\ pc = "start"
    /\ op = "normalize"
    /\ new_name' = Normalize(service_name)
    /\ pc' = "stripped"
    /\ UNCHANGED <<op, ignore_suffix, file, error, heap, services_backup, services_current,
                   services_backup_dict, services_current_dict, services_diff,
                   deleted_services, new_services, idx, applied, failed, service_name,
                   services_old, services_new, services_old_dict>>

NormNext == Strip

NormSpec == NormInit /\ [][NormNext]_vars

----------------------------------------------------------------------------
(* C7 *)

\* s[i..e] is an underscore followed by at most 10 characters of [a-z0-9]
IsSuffix(s, i, e) ==
    /\ i <= e
    /\ s[i] = Underscore
    /\ e - i <= 10
    /\ \A j \in (i + 1)..e :
         s[j] \in (97..122) \cup (48..57)

\* C7 as stated: the suffix is removed when it runs to the end of the name,
\* and every other name is returned unchanged.
C7_StripsSuffixAtEnd ==
    pc = "stripped" =>
        LET s == service_name
        IN IF \E i \in 1..Len(s) : IsSuffix(s, i, Len(s))
           THEN \E i \in 1..Len(s) :
                    IsSuffix(s, i, Len(s)) /\ new_name = SubSeq(s, 1, i - 1)
           ELSE new_name = s

\* C7 amended: the suffix is removed when it runs to the end of the name or
\* to a line feed that is the name's last character (the line feed stays);
\* every other name is returned unchanged.
C7_StripsSuffixAtEndOrBeforeFinalLineFeed ==
    pc = "stripped" =>
        LET s == service_name
            n == Len(s)
        IN IF \E i \in 1..n : IsSuffix(s, i, n)
           THEN \E i \in 1..n : IsSuffix(s, i, n) /\ new_name = SubSeq(s, 1, i - 1)
           ELSE IF n >= 2 /\ s[n] = 10 /\ \E i \in 1..(n - 1) : IsSuffix(s, i, n - 1)
                THEN \E i \in 1..(n - 1) :
                         /\ IsSuffix(s, i, n - 1)
                         /\ new_name = SubSeq(s, 1, i - 1) \o <<10>>
                ELSE new_name = s

\* an underscore and ten characters were removed from the end of a longer name
C7_Witness ==
    /\ pc = "stripped"
    /\ Len(new_name) >= 1
    /\ Len(service_name) = Len(new_name) + 11
    /\ new_name = SubSeq(service_name, 1, Len(new_name))

----------------------------------------------------------------------------
(* configurations_difference *)

StrictInit ==
    /\ pc = "start"
    /\ op = "strict"
    /\ \E old \in SeqsUpTo(GoodRecords, MaxStrictLen), new \in SeqsUpTo(GoodRecords, MaxStrictLen) :
         /\ heap = old \o new
         /\ services_old = Refs(0, Len(old))
         /\ services_new = Refs(Len(old), Len(new))
    /\ ignore_suffix = FALSE
    /\ file = [is_list |-> FALSE, items |-> <<>>]
    /\ error = NoError
    /\ services_backup = <<>>
    /\ services_current = <<>>
    /\ services_backup_dict = <<>>
    /\ services_current_dict = <<>>
    /\ services_diff = <<>>
    /\ deleted_services = <<>>
    /\ new_services = <<>>
    /\ idx = 0
    /\ applied = <<>>
    /\ failed = <<>>
    /\ service_name = <<>>
    /\ new_name = <<>>
    /\ services_old_dict = <<>>

\* len(services_new) != len(services_old)
CountMismatchWhenFewer(new, old) == Len(new) < Len(old)
CountMismatch(new, old) == Len(new) # Len(old)

\* {key: {"OldValue": ..., "NewValue": ...} for key in _only_save_rows if they differ}
FieldDiff(serv_cur, serv_bac) ==
    [key \in {only_save_rows[j] : j \in {j \in 1..Len(only_save_rows) :
                  serv_cur[only_save_rows[j]] # serv_bac[only_save_rows[j]]}} |->
        [OldValue |-> serv_bac[key], NewValue |-> serv_cur[key]]]

\* the lookup map is built, then the counts are compared
StrictStart ==
    /\ pc = "start"
    /\ op = "strict"
    /\ services_old_dict' = BuildDict(heap, services_old, <<>>)
    /\ IF CountMismatch(services_new, services_old)
       THEN /\ error' = [kind |-> "ValueError", msg |-> "Different number of services"]
            /\ pc' = "raised"
            /\ UNCHANGED idx
       ELSE /\ pc' = "comparing"
            /\ idx' = 1
            /\ UNCHANGED error
    /\ UNCHANGED <<op, ignore_suffix, file, heap, services_backup, services_current,
                   services_backup_dict, services_current_dict, services_diff,
                   deleted_services, new_services, applied, failed, service_name,
                   new_name, services_old, services_new>>

\* one iteration of the loop over services_new
StrictCompare ==
    /\ pc = "comparing"
    /\ idx <= Len(services_new)
    /\ LET serv_cur == heap[services_new[idx]]
           serv_name == serv_cur.Name
       IN IF ~DictHas(services_old_dict, serv_name)
          THEN /\ error' = [kind |-> "KeyError", msg |-> serv_name]
               /\ pc' = "raised"
               /\ UNCHANGED <<idx, services_diff>>
          ELSE LET serv_bac == heap[DictGet(services_old_dict, serv_name)]
               IN /\ services_diff' = IF serv_cur # serv_bac
                                      THEN Append(services_diff, FieldDiff(serv_cur, serv_bac))
                                      ELSE services_diff
                  /\ idx' = idx + 1
                  /\ UNCHANGED <<pc, error>>
    /\ UNCHANGED <<op, ignore_suffix, file, heap, services_backup, services_current,
                   services_backup_dict, services_current_dict, deleted_services,
                   new_services, applied, failed, service_name, new_name, services_old,
                   services_new, services_old_dict>>

\* return services_diff
StrictReturn ==
    /\ pc = "comparing"
    /\ idx > Len(services_new)
    /\ pc' = "returned"
    /\ UNCHANGED <<op, ignore_suffix, file, error, heap, services_backup, services_current,
                   services_backup_dict, services_current_dict, services_diff,
                   deleted_services, new_services, idx, applied, failed, service_name,
                   new_name, services_old, services_new, services_old_dict>>

StrictNext ==
    \/ StrictStart
    \/ StrictCompare
    \/ StrictReturn

StrictSpec == StrictInit /\ [][StrictNext]_vars

----------------------------------------------------------------------------
(* C8 *)

\* C8: when the two lists differ in length the strict diff raises the count
\* error and returns nothing: no record of the new list has been looked up,
\* no lookup has failed and no FieldDiff exists, also when a name of the new
\* list is absent from the old one.
C8_CountGuardFirst ==
    (pc # "start" /\ Len(services_new) # Len(services_old)) =>
        /\ pc = "raised"
        /\ error = [kind |-> "ValueError", msg |-> "Different number of services"]
        /\ services_diff = <<>>
        /\ idx = 0

\* the count error on lists where a name of the new list is not in the old one
C8_Witness ==
    /\ pc = "raised"
    /\ Len(services_new) > Len(services_old)
    /\ \E j \in 1..Len(services_new) :
         \A i \in 1..Len(services_old) :
             heap[services_new[j]].Name # heap[services_old[i]].Name

====
